---- MODULE Spec2Model ----
(***************************************************************************)
(* Model of the AIDA Drive Connector (src/main.py): the paragraph chunker, *)
(* the transcript indexer and its persisted index, the semantic query, the *)
(* term expander and the person detector, the two-tier smart_search and    *)
(* the recursive drive walk.                                               *)
(*                                                                         *)
(* Each component has its own specification over the shared variables;     *)
(* the variables of the other components keep their idle values.           *)
(* Text is modelled as a sequence of one-character strings, so that        *)
(* len(), +, strip(), lower(), slicing and `in` are computed as Python     *)
(* computes them.                                                          *)
(***************************************************************************)
EXTENDS Integers, Sequences, FiniteSets, TLC

(***************************************************************************)
(* Bounds of the model.                                                    *)
(***************************************************************************)
\* longest paragraph sequence given to the chunker
MaxPars == 3
\* longest paragraph, in characters
MaxParLen == 3
\* largest character budget (chunk_size is 5000 in the source; scaled)
MaxBudget == 4
\* most files the drive listing returns to one indexing run
MaxFiles == 2
\* most indexing runs in one behaviour
MaxBuilds == 2
\* largest top_k of a query
MaxTopK == 2
\* characters of a chunk kept as its preview (buffer[:300] in the source; scaled)
MaxPreview == 2
\* most files in the store smart_search looks through
MaxStore == 2
\* most items in the drive the walk goes through
MaxItems == 3
\* most items the store returns in one page (pageSize is 100 in the source; scaled)
MaxPage == 2
\* longest string given to expandir_termos and detectar_pessoa_spacy
MaxTextLen == 3

VARIABLES
    \* ---- chunker (the buffer loop of ler_arquivo / indexar_transcripts)
    site,          \* which of the two copies of the loop runs
    paragraphs,    \* the non-empty stripped paragraphs of the document
    chunk_size,    \* the character budget
    buffer,        \* the text accumulated so far
    chunks,        \* the chunks emitted so far, in order
    ck_i,          \* position of the loop in paragraphs
    ck_pc,         \* "idle", "loop" or "done"
    \* ---- indexar_transcripts
    drive,           \* the files of the remote store, in listing order
    arquivos,        \* the files this run processes
    ix_pc,           \* position of the run
    ix_f,            \* position of `for idx, f in enumerate(arquivos, 1)`
    embeddings_list, \* one embedding per chunk, in order
    metadados,       \* one metadata entry per chunk, in order
    ix_gen,          \* number of the current run (its build generation)
    ix_outcome,      \* how each file of this run ended so far, in order
    ix_status,       \* what the last run returned
    index_file,      \* index_cache/transcripts.index on disk
    meta_file,       \* index_cache/transcripts_meta.json on disk
    \* ---- search_transcripts
    q_pc,            \* position of the query
    top_k,           \* its top_k
    q_index,         \* what faiss.read_index returned
    q_meta,          \* what json.load returned
    q_labels,        \* the indices index.search returned
    q_response,      \* what the caller receives
    \* ---- smart_search
    store,           \* the files of the remote store
    query,           \* the request's query
    pessoas,         \* what detectar_pessoa_spacy(query) found
    termos,          \* expandir_termos(query)
    pessoa,          \* pessoas[0].lower(), or <<>> for None
    sm_pc,           \* "idle", "person", "expanded" or "done"
    sm_left,         \* the terms `for termo in termos_busca` has not reached
    sm_queue,        \* the files of the current listing not yet looked at
    encontrados,     \* what the running buscar found so far
    ids_vistos,      \* ids of the files found
    sm_searches,     \* the searches run so far, in order
    sm_person_hits,  \* what the PERSON_SCOPED search returned
    sm_trail,        \* what the running buscar did so far: its list requests
                     \* and the files it looked at, each with its outcome
    sm_response,     \* what the caller receives
    \* ---- indexar_drive
    tree,               \* the items of the drive: item -> [name, folder, trashed, parents]
    arquivos_indexados, \* the records of the walk, in order
    wk_stack,           \* the running calls of listar_conteudo, innermost last
    wk_pc,              \* "idle", "walk" or "done"
    wk_requests,        \* the folder of every list request issued, in order
    wk_status,          \* what the request returned
    drive_index,        \* index_cache/drive_index.json
    \* ---- expandir_termos and detectar_pessoa_spacy
    tx_texto,           \* the string given to the two functions
    tx_pc,              \* "idle", "expand", "detect", "models" or "done"
    termos_expandidos,  \* what expandir_termos returned
    tx_models,          \* the models `for nlp in [...]` has not run yet
    tx_passes,          \* the passes run so far, in order: [nlp, ents]
    tx_pessoas          \* the set `pessoas` of detectar_pessoa_spacy

chunkVars == <<site, paragraphs, chunk_size, buffer, chunks, ck_i, ck_pc>>

indexVars == <<drive, arquivos, ix_pc, ix_f, embeddings_list, metadados, ix_gen,
               ix_outcome, ix_status, index_file, meta_file>>

queryVars == <<q_pc, top_k, q_index, q_meta, q_labels, q_response>>

searchVars == <<store, query, pessoas, termos, pessoa, sm_pc, sm_left, sm_queue,
                encontrados, ids_vistos, sm_searches, sm_person_hits, sm_trail,
                sm_response>>

walkVars == <<tree, arquivos_indexados, wk_stack, wk_pc, wk_requests, wk_status,
              drive_index>>

textVars == <<tx_texto, tx_pc, termos_expandidos, tx_models, tx_passes, tx_pessoas>>

vars == <<chunkVars, indexVars, queryVars, searchVars, walkVars, textVars>>

\* what the actions of one component leave alone
outsideChunker == <<indexVars, queryVars, searchVars, walkVars, textVars>>
outsideIndexer == <<chunkVars, queryVars, searchVars, walkVars, textVars>>
outsideQuery == <<chunkVars, indexVars, searchVars, walkVars, textVars>>
outsideSearch == <<chunkVars, indexVars, queryVars, walkVars, textVars>>
outsideWalk == <<chunkVars, indexVars, queryVars, searchVars, textVars>>
outsideText == <<chunkVars, indexVars, queryVars, searchVars, walkVars>>

(***************************************************************************)
(* Text helpers (Python str semantics).                                    *)
(***************************************************************************)
NL == "\n"

\* characters str.strip() removes
IsSpace(c) == c \in {NL, " "}

RECURSIVE LStrip(_)
LStrip(s) == IF s # <<>> /\ IsSpace(Head(s)) THEN LStrip(Tail(s)) ELSE s

RECURSIVE RStrip(_)
RStrip(s) ==
    IF s # <<>> /\ IsSpace(s[Len(s)]) THEN RStrip(SubSeq(s, 1, Len(s) - 1)) ELSE s

\* str.strip()
Strip(s) == LStrip(RStrip(s))

\* n copies of character c
RECURSIVE Rep(_, _)
Rep(c, n) == IF n = 0 THEN <<>> ELSE <<c>> \o Rep(c, n - 1)

\* all sequences over S of length 1..n
SeqsUpTo(S, n) == UNION {[1..k -> S] : k \in 1..n}

(***************************************************************************)
(* The chunker.  src/main.py 415-425 (ler_arquivo) and 677-703             *)
(* (indexar_transcripts) hold the same loop; they differ in what is        *)
(* emitted when the buffer is flushed: ler_arquivo appends buffer.strip()  *)
(* to chunks, indexar_transcripts embeds the buffer as it is.              *)
(***************************************************************************)
Sites == {"ler_arquivo", "indexar_transcripts"}

\* paragraphs are stripped and non-empty (p.text.strip() for p if p.text.strip())
ParagraphTexts == {Rep(c, n) : c \in {"a", "b"}, n \in 1..MaxParLen}

\* Fits with the comparison off by one (<= instead of <)
FitsOrEqual(buf, paragraph, size) == Len(buf) + Len(paragraph) <= size

\* `if len(buffer) + len(paragraph) < chunk_size`
Fits(buf, paragraph, size) == Len(buf) + Len(paragraph) < size

\* `buffer += paragraph + "\n"` and `buffer = paragraph + "\n"`
AppendParagraph(buf, paragraph) == buf \o paragraph \o <<NL>>

\* the text a flush emits
Emit(s, buf) == IF s = "ler_arquivo" THEN Strip(buf) ELSE buf

\* ChunkStep with a flush that restarts the buffer empty, dropping the
\* paragraph that did not fit
ChunkStepDropping(s, buf, out, paragraph, size) ==
    IF Fits(buf, paragraph, size)
    THEN [buffer |-> AppendParagraph(buf, paragraph), chunks |-> out]
    ELSE [buffer |-> <<>>, chunks |-> Append(out, Emit(s, buf))]

\* one iteration of `for paragraph in paragraphs`
ChunkStep(s, buf, out, paragraph, size) ==
    IF Fits(buf, paragraph, size)
    THEN [buffer |-> AppendParagraph(buf, paragraph), chunks |-> out]
    ELSE [buffer |-> AppendParagraph(<<>>, paragraph),
          chunks |-> Append(out, Emit(s, buf))]

\* `if buffer:` after the loop
ChunkFlush(s, buf, out) == IF buf # <<>> THEN Append(out, Emit(s, buf)) ELSE out

NoFile == [gen |-> 0, exists |-> FALSE, complete |-> FALSE, data |-> <<>>]

NoResponse == [status |-> 0, kind |-> "none", cause |-> "none", resultados |-> <<>>]

IdleChunk ==
    /\ site = "ler_arquivo"
    /\ paragraphs = <<>>
    /\ buffer = <<>>
    /\ chunks = <<>>
    /\ ck_i = 1
    /\ ck_pc = "idle"

IdleIndex ==
    /\ drive = <<>>
    /\ arquivos = <<>>
    /\ ix_pc = "idle"
    /\ ix_f = 1
    /\ embeddings_list = <<>>
    /\ metadados = <<>>
    /\ ix_gen = 0
    /\ ix_outcome = <<>>
    /\ ix_status = "none"
    /\ index_file = NoFile
    /\ meta_file = NoFile

IdleQuery ==
    /\ q_pc = "idle"
    /\ top_k = 1
    /\ q_index = NoFile
    /\ q_meta = NoFile
    /\ q_labels = <<>>
    /\ q_response = NoResponse

NoSearchResponse ==
    [status |-> 0, pessoa_detectada |-> <<>>, busca_expandida |-> FALSE,
     arquivos_encontrados |-> <<>>]

IdleSearch ==
    /\ store = <<>>
    /\ query = <<>>
    /\ pessoas = {}
    /\ termos = {}
    /\ pessoa = <<>>
    /\ sm_pc = "idle"
    /\ sm_left = {}
    /\ sm_queue = <<>>
    /\ encontrados = <<>>
    /\ ids_vistos = {}
    /\ sm_searches = <<>>
    /\ sm_person_hits = <<>>
    /\ sm_trail = <<>>
    /\ sm_response = NoSearchResponse

NoSnapshot == [exists |-> FALSE, total_itens |-> 0, arquivos |-> <<>>]

IdleWalk ==
    /\ tree = <<>>
    /\ arquivos_indexados = <<>>
    /\ wk_stack = <<>>
    /\ wk_pc = "idle"
    /\ wk_requests = <<>>
    /\ wk_status = "none"
    /\ drive_index = NoSnapshot

IdleText ==
    /\ tx_texto = <<>>
    /\ tx_pc = "idle"
    /\ termos_expandidos = {}
    /\ tx_models = <<>>
    /\ tx_passes = <<>>
    /\ tx_pessoas = {}

InitChunk ==
    /\ IdleWalk
    /\ IdleText
    /\ IdleIndex
    /\ IdleQuery
    /\ IdleSearch
    /\ site \in Sites
    /\ paragraphs \in SeqsUpTo(ParagraphTexts, MaxPars)
    /\ chunk_size \in 1..MaxBudget
    /\ buffer = <<>>
    /\ chunks = <<>>
    /\ ck_i = 1
    /\ ck_pc = "loop"

ChunkParagraph ==
    /\ ck_pc = "loop"
    /\ ck_i <= Len(paragraphs)
    /\ LET r == ChunkStep(site, buffer, chunks, paragraphs[ck_i], chunk_size)
       IN  /\ buffer' = r.buffer
           /\ chunks' = r.chunks
    /\ ck_i' = ck_i + 1
    /\ UNCHANGED <<site, paragraphs, chunk_size, ck_pc>>
    /\ UNCHANGED outsideChunker

ChunkEnd ==
    /\ ck_pc = "loop"
    /\ ck_i > Len(paragraphs)
    /\ chunks' = ChunkFlush(site, buffer, chunks)
    /\ ck_pc' = "done"
    /\ UNCHANGED <<site, paragraphs, chunk_size, buffer, ck_i>>
    /\ UNCHANGED outsideChunker

NextChunk == ChunkParagraph \/ ChunkEnd

SpecChunk == InitChunk /\ [][NextChunk]_vars

(***************************************************************************)
(* Reading a chunk back: the paragraphs it holds are the non-empty pieces  *)
(* between the "\n" separators the chunker joined them with.               *)
(***************************************************************************)
RECURSIVE SplitNL(_, _)
SplitNL(s, cur) ==
    IF s = <<>> THEN (IF cur = <<>> THEN <<>> ELSE <<cur>>)
    ELSE IF Head(s) = NL
         THEN (IF cur = <<>> THEN <<>> ELSE <<cur>>) \o SplitNL(Tail(s), <<>>)
         ELSE SplitNL(Tail(s), Append(cur, Head(s)))

ParagraphsOf(chunk) == SplitNL(chunk, <<>>)

RECURSIVE ParagraphsOfAll(_)
ParagraphsOfAll(cs) ==
    IF cs = <<>> THEN <<>> ELSE ParagraphsOf(Head(cs)) \o ParagraphsOfAll(Tail(cs))

\* C4: every paragraph consumed so far sits whole in exactly one chunk (or in
\* the buffer not yet flushed), and reading the chunks back in order, without
\* the joining separators, gives the paragraphs in their original order with
\* none lost, duplicated or reordered; at the end the chunks give back all of
\* the paragraph sequence.
C4_RoundTrip ==
    ck_pc \in {"loop", "done"} =>
        /\ ParagraphsOfAll(chunks)
              \o (IF ck_pc = "done" THEN <<>> ELSE ParagraphsOf(buffer))
           = SubSeq(paragraphs, 1, ck_i - 1)
        /\ ck_pc = "done" => ParagraphsOfAll(chunks) = paragraphs

C4_Witness ==
    /\ ck_pc = "done"
    /\ Len(paragraphs) = 3
    /\ Len(chunks) = 2
    /\ \E i \in 1..Len(chunks) : Len(ParagraphsOf(chunks[i])) = 2

\* C5 as the spec states it: every chunk has length at most the budget, or
\* is a single paragraph that is itself longer than the budget.
C5_AsClaimed ==
    \A i \in 1..Len(chunks) :
        \/ Len(chunks[i]) <= chunk_size
        \/ /\ Len(ParagraphsOf(chunks[i])) = 1
           /\ Len(ParagraphsOf(chunks[i])[1]) > chunk_size

\* C5 amended: every chunk has length at most the budget, or is a single
\* paragraph whose length is at least the budget (indexar_transcripts embeds
\* the buffer with its trailing "\n", so a lone paragraph of exactly budget
\* characters gives a chunk of budget + 1 characters).
C5_ChunkBound ==
    \A i \in 1..Len(chunks) :
        \/ Len(chunks[i]) <= chunk_size
        \/ /\ Len(ParagraphsOf(chunks[i])) = 1
           /\ Len(ParagraphsOf(chunks[i])[1]) >= chunk_size

\* a run that emitted a lone paragraph of exactly chunk_size characters, with
\* its trailing newline
C5_Witness ==
    /\ ck_pc = "done"
    /\ site = "indexar_transcripts"
    /\ Len(paragraphs) >= 2
    /\ \E i \in 1..Len(chunks) :
          /\ Len(chunks[i]) = chunk_size + 1
          /\ Len(ParagraphsOf(chunks[i])) = 1
          /\ Len(ParagraphsOf(chunks[i])[1]) = chunk_size

\* C17: every chunk the chunker emits holds at least one paragraph; no empty
\* chunk is emitted, also when the first paragraph alone reaches or exceeds
\* the budget.
C17_NoEmptyChunk ==
    \A k \in DOMAIN chunks : ParagraphsOf(chunks[k]) # <<>>

(***************************************************************************)
(* indexar_transcripts (src/main.py 581-741) and the two files it persists.*)
(*                                                                         *)
(* A drive file is [id, name, mime, meeting, body]: meeting says whether   *)
(* the name contains one of termos_reuniao, body is what                   *)
(* [p.text.strip() for p in doc.paragraphs if p.text.strip()] gives.       *)
(* An embedding is modelled by the text it was computed from; its field    *)
(* `of` records the file the text came from (the vector itself does not    *)
(* carry it).  A file on disk is [gen, exists, complete, data]: open(.,"w")*)
(* and faiss.write_index truncate the file first, so between the open and  *)
(* the close the file exists and is incomplete.                            *)
(***************************************************************************)
Mimes == {"gdoc", "docx", "other"}

Bodies == {<<>>, <<Rep("a", 1)>>, <<Rep("a", 2), Rep("b", 1)>>}

FileKinds ==
    { [mime |-> "gdoc",  meeting |-> TRUE,  body |-> <<Rep("a", 2), Rep("b", 1)>>],
      [mime |-> "docx",  meeting |-> TRUE,  body |-> <<Rep("a", 1)>>],
      [mime |-> "docx",  meeting |-> FALSE, body |-> <<Rep("a", 2), Rep("b", 1)>>],
      [mime |-> "docx",  meeting |-> TRUE,  body |-> <<>>],
      [mime |-> "other", meeting |-> TRUE,  body |-> <<Rep("b", 1)>>] }

FileAt(i, k) ==
    [id |-> i, name |-> <<"n", i>>, mime |-> k.mime, meeting |-> k.meeting,
     body |-> k.body]

Drives ==
    { [i \in 1..n |-> FileAt(i, ks[i])] : n \in 1..MaxFiles, ks \in [1..MaxFiles -> FileKinds] }

HasMeetingName(f) == f.meeting

IsDocx(f) == f.mime = "docx"

\* the two list requests of lines 607-625: by meeting terms, else every .docx
ListTranscripts(d) ==
    IF SelectSeq(d, HasMeetingName) # <<>>
    THEN SelectSeq(d, HasMeetingName)
    ELSE SelectSeq(d, IsDocx)

\* model.encode(buffer) for a buffer of file f
Encode(f, buf) == [of |-> f.id, text |-> buf]

\* buffer[:300] + "..."
Preview(buf) ==
    SubSeq(buf, 1, IF Len(buf) < MaxPreview THEN Len(buf) ELSE MaxPreview)
        \o <<".", ".", ".">>

\* the dict appended to metadados
MetaEntry(f, buf) == [arquivo |-> f.name, file_id |-> f.id, trecho |-> Preview(buf)]

\* the buffers the loop of lines 681-703 hands to model.encode, in order
RECURSIVE EncodedBuffers(_, _, _, _)
EncodedBuffers(ps, buf, out, size) ==
    IF ps = <<>>
    THEN ChunkFlush("indexar_transcripts", buf, out)
    ELSE LET r == ChunkStep("indexar_transcripts", buf, out, Head(ps), size)
         IN  EncodedBuffers(Tail(ps), r.buffer, r.chunks, size)

RECURSIVE EncodeAll(_, _)
EncodeAll(f, bufs) ==
    IF bufs = <<>> THEN <<>> ELSE <<Encode(f, Head(bufs))>> \o EncodeAll(f, Tail(bufs))

\* MetaAll without the metadata entry of the final flush
RECURSIVE MetaAllButLast(_, _)
MetaAllButLast(f, bufs) ==
    IF Len(bufs) <= 1 THEN <<>>
    ELSE <<MetaEntry(f, Head(bufs))>> \o MetaAllButLast(f, Tail(bufs))

\* the metadados.append that follows each embeddings_list.append
RECURSIVE MetaAll(_, _)
MetaAll(f, bufs) ==
    IF bufs = <<>> THEN <<>> ELSE <<MetaEntry(f, Head(bufs))>> \o MetaAll(f, Tail(bufs))

\* how lines 643-709 end for one file: its type is ignored (652-654), the
\* download or docx.Document raises, it has no paragraph (671-674),
\* model.encode raises, or every chunk is indexed
FileOutcome(f, fetched, failing) ==
    IF f.mime = "other" THEN "ignored"
    ELSE IF ~fetched THEN "raised"
    ELSE IF f.body = <<>> THEN "empty"
    ELSE IF failing # 0 THEN "encode raised"
    ELSE "indexed"

InitIndex ==
    /\ IdleWalk
    /\ IdleText
    /\ IdleChunk
    /\ IdleSearch
    /\ chunk_size \in {2, 3}
    /\ IdleQuery
    /\ drive \in Drives
    /\ arquivos = <<>>
    /\ ix_pc = "idle"
    /\ ix_f = 1
    /\ embeddings_list = <<>>
    /\ metadados = <<>>
    /\ ix_gen = 0
    /\ ix_outcome = <<>>
    /\ ix_status = "none"
    /\ index_file = NoFile
    /\ meta_file = NoFile

\* lines 593-635: the listing; a failing list request leaves through the outer
\* except as a 500
IndexStart ==
    /\ ix_pc = "idle"
    /\ ix_gen < MaxBuilds
    /\ ix_gen' = ix_gen + 1
    /\ ix_outcome' = <<>>
    /\ embeddings_list' = <<>>
    /\ metadados' = <<>>
    /\ ix_f' = 1
    /\ \E listed \in BOOLEAN :
         IF ~listed
         THEN /\ arquivos' = <<>>
              /\ ix_status' = "error 500"
              /\ ix_pc' = "idle"
         ELSE /\ arquivos' = ListTranscripts(drive)
              /\ IF ListTranscripts(drive) = <<>>
                 THEN ix_status' = "no transcript" /\ ix_pc' = "idle"
                 ELSE ix_status' = "running" /\ ix_pc' = "files"
    /\ UNCHANGED <<drive, index_file, meta_file, outsideIndexer>>

\* lines 637-709: one iteration of the loop over arquivos.  fetched is whether
\* the download and docx.Document succeed; failing is the number of the
\* model.encode call that raises (0: none does).
IndexFile ==
    /\ ix_pc = "files"
    /\ ix_f <= Len(arquivos)
    /\ LET f == arquivos[ix_f]
           bufs == EncodedBuffers(f.body, <<>>, <<>>, chunk_size)
       IN  \E fetched \in BOOLEAN, failing \in 0..Len(bufs) :
             LET done == IF failing = 0 THEN bufs ELSE SubSeq(bufs, 1, failing - 1)
             IN  /\ ix_outcome' = Append(ix_outcome, FileOutcome(f, fetched, failing))
                 /\ IF f.mime = "other" \/ ~fetched \/ f.body = <<>>
                    THEN /\ failing = 0
                         /\ f.mime = "other" => fetched
                         /\ UNCHANGED <<embeddings_list, metadados>>
                    ELSE /\ embeddings_list' = embeddings_list \o EncodeAll(f, done)
                         /\ metadados' = metadados \o MetaAll(f, done)
    /\ ix_f' = ix_f + 1
    /\ UNCHANGED <<drive, arquivos, ix_pc, ix_gen, ix_status, index_file, meta_file,
                   outsideIndexer>>

\* lines 711-718: nothing to index, or the FAISS index is built in memory
IndexBuild ==
    /\ ix_pc = "files"
    /\ ix_f > Len(arquivos)
    /\ IF embeddings_list = <<>>
       THEN ix_status' = "no chunk" /\ ix_pc' = "idle"
       ELSE ix_status' = "running" /\ ix_pc' = "write_index"
    /\ UNCHANGED <<drive, arquivos, ix_f, embeddings_list, metadados, ix_gen,
                   ix_outcome, index_file, meta_file, outsideIndexer>>

\* line 723, faiss.write_index: the file is created or truncated
WriteIndexOpen ==
    /\ ix_pc = "write_index"
    /\ index_file' = [gen |-> ix_gen, exists |-> TRUE, complete |-> FALSE, data |-> <<>>]
    /\ ix_pc' = "index_open"
    /\ UNCHANGED <<drive, arquivos, ix_f, embeddings_list, metadados, ix_gen,
                   ix_outcome, ix_status, meta_file, outsideIndexer>>

\* line 723, faiss.write_index: every vector is written and the file closed
WriteIndexClose ==
    /\ ix_pc = "index_open"
    /\ index_file' = [gen |-> ix_gen, exists |-> TRUE, complete |-> TRUE,
                      data |-> embeddings_list]
    /\ ix_pc' = "write_meta"
    /\ UNCHANGED <<drive, arquivos, ix_f, embeddings_list, metadados, ix_gen,
                   ix_outcome, ix_status, meta_file, outsideIndexer>>

\* line 724, open(meta_path, "w"): the file is created or truncated
WriteMetaOpen ==
    /\ ix_pc = "write_meta"
    /\ meta_file' = [gen |-> ix_gen, exists |-> TRUE, complete |-> FALSE, data |-> <<>>]
    /\ ix_pc' = "meta_open"
    /\ UNCHANGED <<drive, arquivos, ix_f, embeddings_list, metadados, ix_gen,
                   ix_outcome, ix_status, index_file, outsideIndexer>>

\* lines 725-738: json.dump, the file is closed and the run returns
WriteMetaClose ==
    /\ ix_pc = "meta_open"
    /\ meta_file' = [gen |-> ix_gen, exists |-> TRUE, complete |-> TRUE,
                     data |-> metadados]
    /\ ix_status' = "ok"
    /\ ix_pc' = "idle"
    /\ UNCHANGED <<drive, arquivos, ix_f, embeddings_list, metadados, ix_gen,
                   ix_outcome, index_file, outsideIndexer>>

Indexer ==
    \/ IndexStart
    \/ IndexFile
    \/ IndexBuild
    \/ WriteIndexOpen
    \/ WriteIndexClose
    \/ WriteMetaOpen
    \/ WriteMetaClose

(***************************************************************************)
(* search_transcripts (src/main.py 243-299).                               *)
(***************************************************************************)
\* sequences of n distinct elements of S
Orderings(S, n) ==
    {o \in [1..n -> S] : \A i, j \in 1..n : i # j => o[i] # o[j]}

Min(a, b) == IF a < b THEN a ELSE b

\* what IndexFlatL2.search can return for an index of n vectors: the
\* min(n, k) nearest positions (0-based), nearest first, in an order the
\* query decides, then -1 for every missing neighbour
SearchLabels(n, k) ==
    { [i \in 1..k |-> IF i <= Len(o) THEN o[i] ELSE -1] :
        o \in Orderings(0..(n - 1), Min(n, k)) }

\* `if idx < len(metadados)`
Kept(idx, meta) == idx < Len(meta)

\* metadados[idx] raises IndexError
OutOfRange(idx, meta) == idx >= Len(meta) \/ idx < 0 - Len(meta)

\* metadados[idx], a Python list subscript: a negative idx counts from the end
PyItem(meta, idx) == IF idx >= 0 THEN meta[idx + 1] ELSE meta[Len(meta) + idx + 1]

\* lines 278-287
RECURSIVE Resultados(_, _)
Resultados(labels, meta) ==
    IF labels = <<>> THEN <<>>
    ELSE (IF Kept(Head(labels), meta)
          THEN <<PyItem(meta, Head(labels))>>
          ELSE <<>>) \o Resultados(Tail(labels), meta)

Raises(labels, meta) ==
    \E i \in 1..Len(labels) : Kept(labels[i], meta) /\ OutOfRange(labels[i], meta)

\* the HTTPException raised at lines 260-263
NotFound404 ==
    [status |-> 404, kind |-> "error", cause |-> "index absent", resultados |-> <<>>]

\* an exception raised by a library call inside the try block
Raised(what) == [status |-> 0, kind |-> "error", cause |-> what, resultados |-> <<>>]

\* lines 298-299: `except Exception as e: raise HTTPException(status_code=500, ...)`;
\* HTTPException is an Exception, so the 404 of line 260 is caught here too
ExceptAll(e) ==
    [status |-> 500, kind |-> "error", cause |-> e.cause, resultados |-> <<>>]

\* lines 289-296
Answer(res) ==
    IF res = <<>>
    THEN [status |-> 200, kind |-> "mensagem", cause |-> "none", resultados |-> <<>>]
    ELSE [status |-> 200, kind |-> "resultados", cause |-> "none", resultados |-> res]

\* lines 254-263: the request arrives and the two files are looked for.  The
\* program never deletes either file, so the two os.path.exists calls are one
\* step.
QueryStart ==
    /\ q_pc \in {"idle", "done"}
    /\ \E k \in 1..MaxTopK : top_k' = k
    /\ q_index' = NoFile
    /\ q_meta' = NoFile
    /\ q_labels' = <<>>
    /\ IF ~index_file.exists \/ ~meta_file.exists
       THEN q_response' = ExceptAll(NotFound404) /\ q_pc' = "done"
       ELSE q_response' = NoResponse /\ q_pc' = "read_index"
    /\ UNCHANGED <<outsideQuery>>

\* line 267: faiss.read_index; a file still being written does not parse
QueryReadIndex ==
    /\ q_pc = "read_index"
    /\ IF index_file.complete
       THEN q_index' = index_file /\ q_pc' = "read_meta" /\ UNCHANGED q_response
       ELSE /\ q_response' = ExceptAll(Raised("read_index"))
            /\ q_pc' = "done"
            /\ UNCHANGED q_index
    /\ UNCHANGED <<top_k, q_meta, q_labels, outsideQuery>>

\* lines 269-270: json.load; a file still being written does not parse
QueryReadMeta ==
    /\ q_pc = "read_meta"
    /\ IF meta_file.complete
       THEN q_meta' = meta_file /\ q_pc' = "search" /\ UNCHANGED q_response
       ELSE /\ q_response' = ExceptAll(Raised("json.load"))
            /\ q_pc' = "done"
            /\ UNCHANGED q_meta
    /\ UNCHANGED <<top_k, q_index, q_labels, outsideQuery>>

\* lines 272-296: the query is embedded, the index searched and the answer built
QuerySearch ==
    /\ q_pc = "search"
    /\ \E labels \in SearchLabels(Len(q_index.data), top_k) :
         /\ q_labels' = labels
         /\ q_response' = IF Raises(labels, q_meta.data)
                          THEN ExceptAll(Raised("IndexError"))
                          ELSE Answer(Resultados(labels, q_meta.data))
    /\ q_pc' = "done"
    /\ UNCHANGED <<top_k, q_index, q_meta, outsideQuery>>

Query == QueryStart \/ QueryReadIndex \/ QueryReadMeta \/ QuerySearch

NextIndex == Indexer \/ Query

Spec == InitIndex /\ [][NextIndex]_vars

\* the indexing runs alone: no query is issued
SpecIndexer == InitIndex /\ [][Indexer]_vars

(***************************************************************************)
(* Claims about the index and the query.                                   *)
(***************************************************************************)
\* vector i was computed from the chunk metadata entry i describes
Paired(embs, metas) ==
    /\ Len(metas) = Len(embs)
    /\ \A i \in 1..Len(embs) :
         /\ metas[i].file_id = embs[i].of
         /\ metas[i].arquivo = <<"n", embs[i].of>>
         /\ metas[i].trecho = Preview(embs[i].text)

\* C1: when a run reaches the point where it persists the index, the metadata
\* list has as many entries as there are vectors and entry i describes the
\* chunk (same file, same text) vector i was computed from; after the run
\* returned successfully the same holds of the two persisted files.
C1_IndexMetaParallel ==
    /\ ix_pc \in {"write_index", "index_open", "write_meta", "meta_open"}
         => Paired(embeddings_list, metadados)
    /\ (ix_pc = "idle" /\ ix_status = "ok")
         => /\ index_file.complete
            /\ meta_file.complete
            /\ Paired(index_file.data, meta_file.data)

\* a successful run over a skipped file and a file whose second encode failed
C1_Witness ==
    /\ ix_pc = "idle"
    /\ ix_status = "ok"
    /\ Len(arquivos) = 2
    /\ \E i, j \in 1..2 :
         /\ arquivos[i].mime = "other"
         /\ Len(EncodedBuffers(arquivos[j].body, <<>>, <<>>, chunk_size)) >= 2
         /\ Len(meta_file.data) = 1
         /\ meta_file.data[1].file_id = arquivos[j].id

\* C2: a query never pairs a vector index of one build generation with a
\* metadata file of another, and never meets a file that is only partly
\* written.
C2_ReaderSeesOneGeneration ==
    /\ (q_index.exists /\ q_meta.exists) => q_index.gen = q_meta.gen
    /\ q_response.cause \notin {"read_index", "json.load"}

\* C3: a query issued when the index file or the metadata file is absent
\* reaches the caller as NotFound (404), an outcome no other failure has, and
\* never as a result.
C3_NotFoundReachesCaller ==
    /\ q_response.cause = "index absent"
         => q_response.status = 404 /\ q_response.kind = "error"
    /\ (q_response.kind = "error" /\ q_response.cause # "index absent")
         => q_response.status # 404

\* C9: a query with top_k at most the number of indexed vectors returns
\* exactly top_k results.
C9_ExactlyTopK ==
    (q_pc = "done" /\ q_index.exists /\ q_meta.exists
        /\ top_k <= Len(q_index.data))
      => /\ q_response.kind = "resultados"
         /\ Len(q_response.resultados) = top_k

\* the metadata entries of the positions the search returned as neighbours,
\* in order; a label of -1 stands for a missing neighbour
RECURSIVE NeighbourEntries(_, _)
NeighbourEntries(labels, meta) ==
    IF labels = <<>> THEN <<>>
    ELSE (IF Head(labels) >= 0 /\ Head(labels) < Len(meta)
          THEN <<meta[Head(labels) + 1]>>
          ELSE <<>>) \o NeighbourEntries(Tail(labels), meta)

\* C16: every result of search_transcripts is the metadata entry of a
\* position the search returned as a neighbour, never of a padding label
\* (-1), and no indexed chunk is returned twice by one query.
C16_OnlyNeighbours ==
    (q_pc = "done" /\ q_response.status = 200 /\ q_index.gen = q_meta.gen)
      => /\ q_response.resultados = NeighbourEntries(q_labels, q_meta.data)
         /\ Len(q_response.resultados) <= Len(q_meta.data)

(***************************************************************************)
(* Text matching (Python str.lower, `in`, str.split).                      *)
(***************************************************************************)
\* str.lower() of one character of the model's alphabet
LowerChar(c) ==
    CASE c = "J" -> "j"
      [] c = "O" -> "o"
      [] c = "G" -> "g"
      [] c = "E" -> "e"
      [] OTHER -> c

\* str.lower()
Lower(s) == [i \in 1..Len(s) |-> LowerChar(s[i])]

\* `t in s` for two strings
Contains(s, t) ==
    \E i \in 0..(Len(s) - Len(t)) : SubSeq(s, i + 1, i + Len(t)) = t

\* the words of a text
RECURSIVE Words(_, _)
Words(s, cur) ==
    IF s = <<>> THEN (IF cur = <<>> THEN {} ELSE {cur})
    ELSE IF IsSpace(Head(s))
         THEN (IF cur = <<>> THEN {} ELSE {cur}) \cup Words(Tail(s), <<>>)
         ELSE Words(Tail(s), Append(cur, Head(s)))

(***************************************************************************)
(* expandir_termos (src/main.py 85-99) over a table with the shape of      *)
(* SINONIMOS (58-67), scaled to the model's alphabet: a key with its       *)
(* synonyms, one key that is part of another key, one synonym that is part *)
(* of another entry's synonym, and one synonym written in upper case       *)
(* (the "ETL" of line 65).                                                 *)
(***************************************************************************)
SINONIMOS ==
    << [chave |-> <<"g", "d">>, sinonimos |-> << <<"d", "v">> >>],
       [chave |-> <<"i", "d">>, sinonimos |-> << <<"E">> >>],
       [chave |-> <<"g">>,      sinonimos |-> << <<"v">> >>] >>

Range(f) == {f[i] : i \in DOMAIN f}

\* `if chave in query_lower or any(s in query_lower for s in sinonimos)`
EntryMatches(e, query_lower) ==
    \/ Contains(query_lower, e.chave)
    \/ \E syn \in Range(e.sinonimos) : Contains(query_lower, syn)

\* the set the function returns as a list
expandir_termos(q) ==
    IF q = <<>> THEN {}
    ELSE LET query_lower == Strip(Lower(q))
         IN  {query_lower}
               \cup UNION { {SINONIMOS[i].chave} \cup Range(SINONIMOS[i].sinonimos) :
                            i \in {j \in DOMAIN SINONIMOS :
                                     EntryMatches(SINONIMOS[j], query_lower)} }

(***************************************************************************)
(* detectar_pessoa_spacy (src/main.py 70-83).  The two spaCy models are    *)
(* black boxes: each may label any words of the text PERSON.               *)
(***************************************************************************)
\* what one model can return: the PERSON entities of the text, stripped
PersonEntities(texto) == SUBSET Words(texto, <<>>)

\* the sets the function can return as a list: the union of the entities of
\* nlp_en and of nlp_pt
detectar_pessoa_spacy(texto) ==
    IF texto = <<>> THEN {{}}
    ELSE {en \cup pt : en \in PersonEntities(texto), pt \in PersonEntities(texto)}

(***************************************************************************)
(* The two functions applied to one string, in the order smart_search      *)
(* calls them (src/main.py 311-312).  detectar_pessoa_spacy is taken one   *)
(* pass of `for nlp in [nlp_en, nlp_pt]` at a time.                        *)
(***************************************************************************)
\* the characters of the strings: letters of the table's terms in both
\* cases, and the blank
TextChars == {"g", "d", "e", "E", " "}

Texts == SeqsUpTo(TextChars, MaxTextLen)

\* `[nlp_en, nlp_pt]`
Models == <<"nlp_en", "nlp_pt">>

\* a pass that puts its entities in place of the ones found before
ReplaceEntities(found, ents) == ents

\* `pessoas.add(ent.text.strip())` for every PERSON entity of one pass
AddEntities(found, ents) == found \cup ents

InitText ==
    /\ IdleChunk
    /\ IdleIndex
    /\ IdleQuery
    /\ IdleSearch
    /\ IdleWalk
    /\ chunk_size = 1
    /\ tx_texto \in Texts
    /\ tx_pc = "expand"
    /\ termos_expandidos = {}
    /\ tx_models = <<>>
    /\ tx_passes = <<>>
    /\ tx_pessoas = {}

\* termos = expandir_termos(query)
ExpandirTermos ==
    /\ tx_pc = "expand"
    /\ termos_expandidos' = expandir_termos(tx_texto)
    /\ tx_pc' = "detect"
    /\ UNCHANGED <<tx_texto, tx_models, tx_passes, tx_pessoas>>
    /\ UNCHANGED outsideText

\* `if not texto: return []`, else `pessoas = set()` and the loop begins
DetectStart ==
    /\ tx_pc = "detect"
    /\ tx_pessoas' = {}
    /\ IF tx_texto = <<>>
       THEN tx_pc' = "done" /\ tx_models' = <<>>
       ELSE tx_pc' = "models" /\ tx_models' = Models
    /\ UNCHANGED <<tx_texto, termos_expandidos, tx_passes>>
    /\ UNCHANGED outsideText

\* one turn of `for nlp in [nlp_en, nlp_pt]`: the model labels some words
\* of the text PERSON and each is added to the set
DetectPass ==
    /\ tx_pc = "models"
    /\ tx_models # <<>>
    /\ \E ents \in PersonEntities(tx_texto) :
         /\ tx_pessoas' = AddEntities(tx_pessoas, ents)
         /\ tx_passes' = Append(tx_passes, [nlp |-> Head(tx_models), ents |-> ents])
    /\ tx_models' = Tail(tx_models)
    /\ UNCHANGED <<tx_texto, tx_pc, termos_expandidos>>
    /\ UNCHANGED outsideText

\* `return list(pessoas)`
DetectReturn ==
    /\ tx_pc = "models"
    /\ tx_models = <<>>
    /\ tx_pc' = "done"
    /\ UNCHANGED <<tx_texto, termos_expandidos, tx_models, tx_passes, tx_pessoas>>
    /\ UNCHANGED outsideText

NextText == ExpandirTermos \/ DetectStart \/ DetectPass \/ DetectReturn

SpecText == InitText /\ [][NextText]_vars

(***************************************************************************)
(* Claims about the term expander and the person detector.                 *)
(***************************************************************************)
\* the terms of one entry of the table
EntryTerms(e) == {e.chave} \cup Range(e.sinonimos)

\* t occurs in q as a substring when the case of both is ignored
OccursIgnoringCase(t, q) == Contains(Lower(q), Lower(t))

\* the set the claim describes
StatedExpansion(q) ==
    IF q = <<>> THEN {}
    ELSE {Strip(Lower(q))}
           \cup UNION {EntryTerms(e) : e \in {x \in Range(SINONIMOS) :
                           \E t \in EntryTerms(x) : OccursIgnoringCase(t, q)}}

\* C11: for a non-empty query expandir_termos returns the lower-cased
\* trimmed query plus the key and all synonyms of every entry one of whose
\* terms occurs in the query as a case-insensitive substring; for the empty
\* query it returns nothing.
C11_ExpansionAsStated ==
    tx_pc \in {"detect", "models", "done"}
        => termos_expandidos = StatedExpansion(tx_texto)

\* C12 as stated: the second model runs only as a fallback, when the first
\* pass found no person; when the first pass finds a person the result
\* holds the persons of that pass only.
C12_FallbackOnly ==
    (tx_pc = "done" /\ tx_passes # <<>> /\ tx_passes[1].ents # {})
        => /\ Len(tx_passes) = 1
           /\ tx_pessoas = tx_passes[1].ents

\* C12: on every non-empty text the detector runs both models, nlp_en and
\* then nlp_pt, whatever the first pass found, and returns the union of the
\* persons of the two passes; on the empty text it runs no model and
\* returns nothing.
C12_BothModelsAlways ==
    tx_pc = "done"
        => IF tx_texto = <<>>
           THEN tx_passes = <<>> /\ tx_pessoas = {}
           ELSE /\ Len(tx_passes) = 2
                /\ tx_passes[1].nlp = "nlp_en"
                /\ tx_passes[2].nlp = "nlp_pt"
                /\ tx_pessoas = tx_passes[1].ents \cup tx_passes[2].ents

\* the first pass found a person and the second pass added another one
C12_Witness ==
    /\ tx_pc = "done"
    /\ Len(tx_passes) = 2
    /\ tx_passes[1].ents # {}
    /\ tx_passes[2].ents \ tx_passes[1].ents # {}
    /\ tx_passes[1].ents \ tx_passes[2].ents # {}
    /\ tx_pessoas = tx_passes[1].ents \cup tx_passes[2].ents

(***************************************************************************)
(* smart_search (src/main.py 302-362).  A store file is                    *)
(* [id, name, kind, content]: ler_arquivo gives "conteudo" as a string for *)
(* kind "text" and as a list of chunks for kind "docx" (line 434).         *)
(***************************************************************************)
StoreKinds ==
    { [name |-> <<"J", "o", " ", "g">>, kind |-> "text", content |-> <<"g", " ", "x">>],
      [name |-> <<"g">>,                kind |-> "text", content |-> <<"J", "O", " ", "v">>],
      [name |-> <<"g">>,                kind |-> "text", content |-> <<"v">>],
      [name |-> <<"j", "o", " ", "g">>, kind |-> "text", content |-> <<"x">>],
      [name |-> <<"J", "o", " ", "g">>, kind |-> "docx", content |-> <<"j", "o", " ", "g">>] }

StoreFile(i, k) == [id |-> i, name |-> k.name, kind |-> k.kind, content |-> k.content]

Stores ==
    { [i \in 1..n |-> StoreFile(i, ks[i])] : n \in 0..MaxStore, ks \in [1..MaxStore -> StoreKinds] }

Queries == { <<"J", "o", " ", "g">>, <<"g">>, <<"x">>, <<>> }

\* the files `name contains '<termo>' and trashed=false` lists, in store order
NameContains(termo, f) == Contains(Lower(f.name), Lower(termo))

Listing(st, termo) == SelectSeq(st, LAMBDA f : NameContains(termo, f))

\* PersonFilterRejects with the person filter switched off
PersonFilterOff(foco_pessoa, who, f, conteudo) == FALSE

\* line 331: `if foco_pessoa and pessoa not in f["name"].lower() and pessoa not in conteudo`
PersonFilterRejects(foco_pessoa, who, f, conteudo) ==
    /\ foco_pessoa
    /\ ~Contains(Lower(f.name), who)
    /\ ~Contains(conteudo, who)

\* line 334: `if any(t in conteudo for t in termos_busca)`
TermFound(termos_busca, conteudo) == \E t \in termos_busca : Contains(conteudo, t)

\* NeedsExpanded with the second search always run
AlwaysExpands(found) == TRUE

\* line 348: `if not arquivos_final`
NeedsExpanded(found) == found = <<>>

\* ExpandedFlag set whenever the second search ran
FlagAlwaysSet(who) == TRUE

\* line 350: `expanded = True if pessoa else False`
ExpandedFlag(who) == who # <<>>

\* lines 352-359
SearchAnswer(who, flag, found) ==
    [status |-> 200, pessoa_detectada |-> who, busca_expandida |-> flag,
     arquivos_encontrados |-> found]

\* lines 361-362
SearchError ==
    [status |-> 500, pessoa_detectada |-> <<>>, busca_expandida |-> FALSE,
     arquivos_encontrados |-> <<>>]

\* one list request of buscar and how it ended
ListStep(termo, outcome) == [step |-> "list", termo |-> termo, id |-> 0, outcome |-> outcome]

\* one file of a listing and how it ended
FileStep(f, outcome) == [step |-> "file", termo |-> <<>>, id |-> f.id, outcome |-> outcome]

\* lines 327-336 for one file: already found, ler_arquivo or .lower() raises,
\* the person filter rejects it, a term occurs in its content, or none does
CandidateOutcome(f, readable, foco_pessoa, who, termos_busca, vistos) ==
    IF f.id \in vistos THEN "seen"
    ELSE IF ~readable \/ f.kind # "text" THEN "raised"
    ELSE IF PersonFilterRejects(foco_pessoa, who, f, Lower(f.content)) THEN "filtered"
    ELSE IF TermFound(termos_busca, Lower(f.content)) THEN "found"
    ELSE "no term"

\* a failing candidate that leaves through the handler's outer except
CandidateEndsRequest(pc, response) == [pc |-> "done", response |-> SearchError]

\* lines 337-339, `except Exception as err: print(...); continue`: the loop
\* goes on and nothing is answered yet
ExceptCandidate(pc, response) == [pc |-> pc, response |-> response]

InitSearch ==
    /\ IdleWalk
    /\ IdleText
    /\ IdleChunk
    /\ chunk_size = 1
    /\ IdleIndex
    /\ IdleQuery
    /\ store \in Stores
    /\ query = <<>>
    /\ pessoas = {}
    /\ termos = {}
    /\ pessoa = <<>>
    /\ sm_pc = "idle"
    /\ sm_left = {}
    /\ sm_queue = <<>>
    /\ encontrados = <<>>
    /\ ids_vistos = {}
    /\ sm_searches = <<>>
    /\ sm_person_hits = <<>>
    /\ sm_trail = <<>>
    /\ sm_response = NoSearchResponse

\* lines 309-315 and 343-349: the request arrives, the terms are expanded, the
\* person detected, and the first search is chosen
SmartStart ==
    /\ sm_pc = "idle"
    /\ \E q \in Queries : \E found \in detectar_pessoa_spacy(q) :
         /\ query' = q
         /\ pessoas' = found
         /\ termos' = expandir_termos(q)
         /\ sm_left' = expandir_termos(q)
         /\ \E who \in (IF found = {} THEN {<<>>} ELSE {Lower(n) : n \in found}) :
              /\ pessoa' = who
              /\ IF who # <<>>
                 THEN sm_pc' = "person" /\ sm_searches' = <<"PERSON_SCOPED">>
                 ELSE sm_pc' = "expanded" /\ sm_searches' = <<"EXPANDED">>
    /\ sm_queue' = <<>>
    /\ encontrados' = <<>>
    /\ ids_vistos' = {}
    /\ sm_person_hits' = <<>>
    /\ sm_trail' = <<>>
    /\ sm_response' = NoSearchResponse
    /\ UNCHANGED <<store, outsideSearch>>

\* lines 319-325: the next term's list request; if it raises, the request
\* ends in the outer except
BuscarList ==
    /\ sm_pc \in {"person", "expanded"}
    /\ sm_queue = <<>>
    /\ sm_left # {}
    /\ \E termo \in sm_left, listed \in BOOLEAN :
         IF listed
         THEN /\ sm_left' = sm_left \ {termo}
              /\ sm_queue' = Listing(store, termo)
              /\ sm_trail' = Append(sm_trail, ListStep(termo, "listed"))
              /\ UNCHANGED <<sm_pc, sm_response>>
         ELSE /\ sm_left' = {}
              /\ sm_queue' = <<>>
              /\ sm_trail' = Append(sm_trail, ListStep(termo, "raised"))
              /\ sm_pc' = "done"
              /\ sm_response' = SearchError
    /\ UNCHANGED <<store, query, pessoas, termos, pessoa, encontrados, ids_vistos,
                   sm_searches, sm_person_hits, outsideSearch>>

\* lines 326-339: one file of the listing.  readable is whether ler_arquivo
\* returns; a docx's "conteudo" is a list, so .lower() raises and the file is
\* skipped like one that could not be read.
BuscarCandidate ==
    /\ sm_pc \in {"person", "expanded"}
    /\ sm_queue # <<>>
    /\ LET f == Head(sm_queue)
       IN  \E readable \in BOOLEAN :
             LET outcome == CandidateOutcome(f, readable, sm_pc = "person", pessoa,
                                             termos, ids_vistos)
                 caught == ExceptCandidate(sm_pc, sm_response)
             IN  /\ sm_trail' = Append(sm_trail, FileStep(f, outcome))
                 /\ IF outcome = "found"
                    THEN /\ encontrados' = Append(encontrados, f)
                         /\ ids_vistos' = ids_vistos \cup {f.id}
                    ELSE UNCHANGED <<encontrados, ids_vistos>>
                 /\ IF outcome = "raised"
                    THEN sm_pc' = caught.pc /\ sm_response' = caught.response
                    ELSE UNCHANGED <<sm_pc, sm_response>>
    /\ sm_queue' = Tail(sm_queue)
    /\ UNCHANGED <<store, query, pessoas, termos, pessoa, sm_left,
                   sm_searches, sm_person_hits, outsideSearch>>

\* line 340 and lines 344-359: buscar returns; the PERSON_SCOPED search either
\* answers or hands over to the EXPANDED search, the EXPANDED search answers
BuscarReturn ==
    /\ sm_pc \in {"person", "expanded"}
    /\ sm_queue = <<>>
    /\ sm_left = {}
    /\ IF sm_pc = "person"
       THEN /\ sm_person_hits' = encontrados
            /\ IF NeedsExpanded(encontrados)
               THEN /\ sm_pc' = "expanded"
                    /\ sm_searches' = Append(sm_searches, "EXPANDED")
                    /\ sm_left' = termos
                    /\ encontrados' = <<>>
                    /\ sm_trail' = <<>>
                    /\ UNCHANGED sm_response
               ELSE /\ sm_pc' = "done"
                    /\ sm_response' = SearchAnswer(pessoa, FALSE, encontrados)
                    /\ UNCHANGED <<sm_searches, sm_left, encontrados, sm_trail>>
       ELSE /\ sm_pc' = "done"
            /\ sm_response' = SearchAnswer(pessoa, ExpandedFlag(pessoa), encontrados)
            /\ UNCHANGED <<sm_searches, sm_left, encontrados, sm_person_hits, sm_trail>>
    /\ UNCHANGED <<store, query, pessoas, termos, pessoa, sm_queue, ids_vistos,
                   outsideSearch>>

NextSearch == SmartStart \/ BuscarList \/ BuscarCandidate \/ BuscarReturn

SpecSearch == InitSearch /\ [][NextSearch]_vars

(***************************************************************************)
(* Claims about smart_search.                                              *)
(***************************************************************************)
\* t occurs in s, case ignored
ContainsIgnoringCase(s, t) == Contains(Lower(s), Lower(t))

\* C6: PERSON_SCOPED runs only if a person was detected; EXPANDED runs first
\* when no person was detected, or after PERSON_SCOPED when and only when
\* PERSON_SCOPED returned no file; there is at most one such hand-over and
\* nothing follows EXPANDED.
C6_TwoTierOrder ==
    sm_pc # "idle" =>
        /\ sm_searches \in { <<"PERSON_SCOPED">>, <<"EXPANDED">>,
                             <<"PERSON_SCOPED", "EXPANDED">> }
        /\ sm_searches[1] = "PERSON_SCOPED" <=> pessoas # {}
        /\ Len(sm_searches) = 2 => sm_person_hits = <<>>
        /\ (sm_pc = "done" /\ sm_response.status = 200
               /\ sm_searches = <<"PERSON_SCOPED">>)
             => sm_person_hits # <<>>

C6_Witness ==
    /\ sm_pc = "done"
    /\ sm_response.status = 200
    /\ sm_searches = <<"PERSON_SCOPED", "EXPANDED">>
    /\ sm_response.arquivos_encontrados # <<>>

\* C7 as the spec states it: busca_expandida is true exactly when the
\* EXPANDED search produced the returned files, false exactly when the
\* PERSON_SCOPED search did.
C7_AsClaimed ==
    (sm_pc = "done" /\ sm_response.status = 200)
      => (sm_response.busca_expandida
            <=> sm_searches[Len(sm_searches)] = "EXPANDED")

\* C7 amended: busca_expandida is true exactly when a person was detected,
\* PERSON_SCOPED returned no file and EXPANDED ran as the fallback; it is
\* false when PERSON_SCOPED produced the result and also when no person was
\* detected, although EXPANDED produced the result then.
C7_FlagMeansFallback ==
    (sm_pc = "done" /\ sm_response.status = 200)
      => (sm_response.busca_expandida
            <=> sm_searches = <<"PERSON_SCOPED", "EXPANDED">>)

C7_Witness ==
    /\ sm_pc = "done"
    /\ sm_response.status = 200
    /\ sm_searches = <<"EXPANDED">>
    /\ sm_response.arquivos_encontrados # <<>>
    /\ ~sm_response.busca_expandida

PersonScopedHit(f) ==
    /\ \E n \in pessoas :
         /\ Lower(n) = pessoa
         /\ \/ ContainsIgnoringCase(f.name, n)
            \/ ContainsIgnoringCase(f.content, n)
    /\ \E t \in termos : ContainsIgnoringCase(f.content, t)

\* C8: every file the PERSON_SCOPED search finds, and so every file returned
\* from that state, has the detected person's name in its name or in its
\* content, case ignored, and has at least one expanded term in its content.
C8_PersonScopedFiles ==
    /\ sm_pc = "person" => \A i \in 1..Len(encontrados) : PersonScopedHit(encontrados[i])
    /\ (sm_pc = "done" /\ sm_response.status = 200
           /\ sm_searches = <<"PERSON_SCOPED">>)
         => \A i \in 1..Len(sm_response.arquivos_encontrados) :
              PersonScopedHit(sm_response.arquivos_encontrados[i])

\* a returned file whose name lacks the person and whose content holds it in
\* another case
C8_Witness ==
    /\ sm_pc = "done"
    /\ sm_response.status = 200
    /\ sm_searches = <<"PERSON_SCOPED">>
    /\ \E i \in 1..Len(sm_response.arquivos_encontrados) :
         LET f == sm_response.arquivos_encontrados[i]
         IN  /\ ~Contains(Lower(f.name), pessoa)
             /\ ~Contains(f.content, pessoa)
             /\ Contains(Lower(f.content), pessoa)

(***************************************************************************)
(* The two batch operations, one request at a time: a smart_search over a  *)
(* store, or an indexing run over a drive.                                 *)
(***************************************************************************)
InitBatch == InitSearch \/ InitIndex

NextBatch ==
    \/ drive = <<>> /\ NextSearch
    \/ drive # <<>> /\ Indexer

SpecBatch == InitBatch /\ [][NextBatch]_vars

\* the embeddings and the metadata entries of one file
EmbeddingsOf(id) == SelectSeq(embeddings_list, LAMBDA e : e.of = id)

MetadataOf(id) == SelectSeq(metadados, LAMBDA m : m.file_id = id)

\* the entries of a trail with a given outcome
WithOutcome(trail, outcome) == SelectSeq(trail, LAMBDA t : t.outcome = outcome)

\* buscar has returned and the request was answered
Answered == sm_pc = "done" /\ sm_response.status = 200

\* the loop over arquivos has ended
AllFilesDone ==
    \/ ix_pc \in {"write_index", "index_open", "write_meta", "meta_open"}
    \/ ix_pc = "idle" /\ ix_status \in {"ok", "no chunk"}

\* a candidate that raised is skipped, the candidates after it are looked at
\* in listing order, and the request is answered from the files found
SearchSkipsFailedCandidate ==
    /\ \A k \in DOMAIN sm_trail :
         (sm_trail[k].step = "list" /\ sm_trail[k].outcome = "listed")
             => LET listing == Listing(store, sm_trail[k].termo)
                IN  /\ \A j \in 1..Len(listing) :
                         k + j <= Len(sm_trail)
                             => /\ sm_trail[k + j].step = "file"
                                /\ sm_trail[k + j].id = listing[j].id
                    /\ k + Len(listing) < Len(sm_trail)
                         => sm_trail[k + Len(listing) + 1].step = "list"
                    /\ Answered => k + Len(listing) <= Len(sm_trail)
    /\ \A k \in DOMAIN sm_trail :
         (sm_trail[k].step = "file" /\ sm_trail[k].outcome = "raised")
             => \/ \A i \in DOMAIN encontrados : encontrados[i].id # sm_trail[k].id
                \/ \E j \in DOMAIN sm_trail :
                      /\ j # k
                      /\ sm_trail[j].id = sm_trail[k].id
                      /\ sm_trail[j].outcome = "found"
    /\ sm_pc \in {"person", "expanded", "done"}
         => [i \in DOMAIN encontrados |-> encontrados[i].id]
              = [i \in DOMAIN WithOutcome(sm_trail, "found") |->
                   WithOutcome(sm_trail, "found")[i].id]
    /\ Answered
         => /\ sm_response.arquivos_encontrados = encontrados
            /\ {sm_trail[k].termo : k \in {i \in DOMAIN sm_trail :
                                              sm_trail[i].step = "list"}} = termos
    /\ (sm_pc = "done" /\ sm_response.status = 500)
         => /\ sm_trail # <<>>
            /\ sm_trail[Len(sm_trail)].step = "list"
            /\ sm_trail[Len(sm_trail)].outcome = "raised"

\* a file whose download or extraction raised adds nothing, the files after
\* it are processed, and the run does not end in an error
IndexerSkipsFailedFile ==
    /\ Len(ix_outcome) <= Len(arquivos)
    /\ \A k \in DOMAIN ix_outcome :
         LET f == arquivos[k]
             bufs == EncodedBuffers(f.body, <<>>, <<>>, chunk_size)
         IN  /\ ix_outcome[k] = "raised"
                  => EmbeddingsOf(f.id) = <<>> /\ MetadataOf(f.id) = <<>>
             /\ ix_outcome[k] = "indexed"
                  => /\ EmbeddingsOf(f.id) = EncodeAll(f, bufs)
                     /\ MetadataOf(f.id) = MetaAll(f, bufs)
    /\ (\E k \in DOMAIN ix_outcome : ix_outcome[k] = "raised")
         => ix_status \in {"running", "ok", "no chunk"}
    /\ AllFilesDone => Len(ix_outcome) = Len(arquivos)
    /\ (ix_pc = "idle" /\ ix_status = "ok") => meta_file.data = metadados

\* C13: a failure while fetching or extracting one item of a batch (one
\* candidate of smart_search, one file of indexar_transcripts) is caught at
\* that item: the item is skipped, the items after it are still processed,
\* and the operation returns its normal result, built from the items that
\* succeeded, instead of an error.
C13_ItemFailureSkipped == SearchSkipsFailedCandidate /\ IndexerSkipsFailedFile

\* a candidate raised, a candidate after it was found, and the request was
\* answered with it
C13_Witness ==
    /\ Answered
    /\ sm_response.arquivos_encontrados # <<>>
    /\ \E k, j \in DOMAIN sm_trail :
         /\ k < j
         /\ sm_trail[k].step = "file" /\ sm_trail[k].outcome = "raised"
         /\ sm_trail[j].step = "file" /\ sm_trail[j].outcome = "found"
         /\ sm_trail[j].id # sm_trail[k].id

\* the download of a file raised, a file after it was indexed, and the run
\* ended well
C13_IndexCase ==
    /\ ix_pc = "idle" /\ ix_status = "ok"
    /\ \E k, j \in DOMAIN ix_outcome :
         /\ k < j
         /\ ix_outcome[k] = "raised"
         /\ ix_outcome[j] = "indexed"
         /\ EmbeddingsOf(arquivos[j].id) # <<>>

(***************************************************************************)
(* indexar_drive and listar_conteudo (src/main.py 744-801).  The root      *)
(* folder is item 0; item i of the tree is [name, folder, trashed,         *)
(* parents].  A parent is the root or a folder with a smaller number, so   *)
(* the hierarchy is acyclic; an item may have several parents.  At most    *)
(* one item is trashed.  A call of listar_conteudo is a frame              *)
(* [pasta_id, caminho, page_token, page, next, at]: page_token is the      *)
(* number of children already listed (0 for None), page the items of the   *)
(* current page not yet visited, next the nextPageToken (0 for none).      *)
(***************************************************************************)
Root == 0

ItemNames == <<"a", "b", "c", "d", "e">>

ItemChoices(t, i) ==
    { [name |-> <<ItemNames[i]>>, folder |-> f, trashed |-> tr, parents |-> ps] :
        f \in BOOLEAN,
        tr \in (IF \E j \in 1..Len(t) : t[j].trashed THEN {FALSE} ELSE BOOLEAN),
        ps \in (SUBSET ({Root} \cup {j \in 1..Len(t) : t[j].folder})) \ {{}} }

RECURSIVE TreesOf(_)
TreesOf(n) ==
    IF n = 0 THEN {<<>>}
    ELSE UNION { {Append(t, r) : r \in ItemChoices(t, n)} : t \in TreesOf(n - 1) }

Trees == UNION {TreesOf(n) : n \in 1..MaxItems}

\* the items `'<pasta_id>' in parents and trashed=false` matches, in the
\* store's order
RECURSIVE ChildrenFrom(_, _, _)
ChildrenFrom(t, pasta_id, i) ==
    IF i > Len(t) THEN <<>>
    ELSE (IF pasta_id \in t[i].parents /\ ~t[i].trashed THEN <<i>> ELSE <<>>)
            \o ChildrenFrom(t, pasta_id, i + 1)

Children(t, pasta_id) == ChildrenFrom(t, pasta_id, 1)

\* str.strip("/")
RECURSIVE StripSlash(_)
StripSlash(s) ==
    IF s # <<>> /\ Head(s) = "/" THEN StripSlash(Tail(s))
    ELSE IF s # <<>> /\ s[Len(s)] = "/" THEN StripSlash(SubSeq(s, 1, Len(s) - 1))
    ELSE s

\* line 767: f"{caminho_atual}/{item['name']}".strip("/")
Caminho(caminho_atual, name) == StripSlash(caminho_atual \o <<"/">> \o name)

\* a new call of listar_conteudo: `page_token = None`
Frame(pasta_id, caminho) ==
    [pasta_id |-> pasta_id, caminho |-> caminho, page_token |-> 0, page |-> <<>>,
     next |-> 0, at |-> "list"]

Top == wk_stack[Len(wk_stack)]

SetTop(fr) == [wk_stack EXCEPT ![Len(wk_stack)] = fr]

\* a cursor that stops advancing after the first page
StaleToken(page_token, got, rest) ==
    IF got < rest THEN (IF page_token = 0 THEN got ELSE page_token) ELSE 0

\* line 775, results.get("nextPageToken"): where the next page begins, or 0
\* (None) after the last page
NextPageToken(page_token, got, rest) == IF got < rest THEN page_token + got ELSE 0

InitWalk ==
    /\ IdleChunk
    /\ IdleText
    /\ chunk_size = 1
    /\ IdleIndex
    /\ IdleQuery
    /\ IdleSearch
    /\ tree \in Trees
    /\ arquivos_indexados = <<>>
    /\ wk_stack = <<>>
    /\ wk_pc = "idle"
    /\ wk_requests = <<>>
    /\ wk_status = "none"
    /\ drive_index = NoSnapshot

\* lines 752-754 and 780-781: the walk starts at the root folder
WalkStart ==
    /\ wk_pc = "idle"
    /\ wk_pc' = "walk"
    /\ wk_stack' = <<Frame(Root, <<>>)>>
    /\ UNCHANGED <<tree, arquivos_indexados, wk_requests, wk_status, drive_index,
                   outsideWalk>>

\* lines 759-764: one list request of the innermost call.  The store returns
\* the next 1..MaxPage children and, if more remain, a nextPageToken; a
\* request that raises ends the whole walk in the outer except.
WalkList ==
    /\ wk_pc = "walk"
    /\ wk_stack # <<>>
    /\ Top.at = "list"
    /\ wk_requests' = Append(wk_requests, Top.pasta_id)
    /\ LET all == Children(tree, Top.pasta_id)
           rest == Len(all) - Top.page_token
       IN  \E n \in 1..MaxPage, listed \in BOOLEAN :
             IF listed
             THEN LET got == IF n < rest THEN n ELSE rest
                  IN  /\ wk_stack' = SetTop([Top EXCEPT
                             !.page = SubSeq(all, Top.page_token + 1, Top.page_token + got),
                             !.next = NextPageToken(Top.page_token, got, rest),
                             !.at = "items"])
                      /\ UNCHANGED <<wk_pc, wk_status>>
             ELSE /\ n = 1
                  /\ wk_stack' = <<>>
                  /\ wk_pc' = "done"
                  /\ wk_status' = "error 500"
    /\ UNCHANGED <<tree, arquivos_indexados, drive_index, outsideWalk>>

\* lines 766-773: one item of the page is recorded with its path; a folder is
\* walked at once, by a nested call
WalkItem ==
    /\ wk_pc = "walk"
    /\ wk_stack # <<>>
    /\ Top.at = "items"
    /\ Top.page # <<>>
    /\ LET item == Head(Top.page)
           caminho == Caminho(Top.caminho, tree[item].name)
           rest == SetTop([Top EXCEPT !.page = Tail(Top.page)])
       IN  /\ arquivos_indexados' = Append(arquivos_indexados, [id |-> item, path |-> caminho])
           /\ wk_stack' = IF tree[item].folder
                          THEN Append(rest, Frame(item, caminho))
                          ELSE rest
    /\ UNCHANGED <<tree, wk_pc, wk_requests, wk_status, drive_index, outsideWalk>>

\* lines 775-777: the page is done; the call asks for the next page or returns
WalkPageEnd ==
    /\ wk_pc = "walk"
    /\ wk_stack # <<>>
    /\ Top.at = "items"
    /\ Top.page = <<>>
    /\ wk_stack' = IF Top.next # 0
                   THEN SetTop([Top EXCEPT !.page_token = Top.next, !.at = "list"])
                   ELSE SubSeq(wk_stack, 1, Len(wk_stack) - 1)
    /\ UNCHANGED <<tree, arquivos_indexados, wk_pc, wk_requests, wk_status,
                   drive_index, outsideWalk>>

\* lines 783-798: the root call returned; the snapshot is written
WalkSnapshot ==
    /\ wk_pc = "walk"
    /\ wk_stack = <<>>
    /\ drive_index' = [exists |-> TRUE, total_itens |-> Len(arquivos_indexados),
                       arquivos |-> arquivos_indexados]
    /\ wk_status' = "ok"
    /\ wk_pc' = "done"
    /\ UNCHANGED <<tree, arquivos_indexados, wk_stack, wk_requests, outsideWalk>>

NextWalk == WalkStart \/ WalkList \/ WalkItem \/ WalkPageEnd \/ WalkSnapshot

SpecWalk == InitWalk /\ [][NextWalk]_vars

\* the handler runs to its end: a step that can be taken is taken
SpecWalkFair == InitWalk /\ [][NextWalk]_vars /\ WF_vars(NextWalk)

(***************************************************************************)
(* Claims about the drive walk.                                            *)
(***************************************************************************)
\* the items reachable from the root through folders that are not trashed
RECURSIVE ReachableIn(_, _, _)
ReachableIn(t, found, rounds) ==
    IF rounds = 0 THEN found
    ELSE ReachableIn(t,
            found \cup {i \in 1..Len(t) :
                          /\ ~t[i].trashed
                          /\ \E p \in t[i].parents :
                               p = Root \/ (p \in found /\ t[p].folder)},
            rounds - 1)

Reachable(t) == ReachableIn(t, {}, Len(t))

Occurrences(records, item) == Cardinality({k \in 1..Len(records) : records[k].id = item})

\* C10: the snapshot of a walk that ended well holds every reachable item that
\* is not trashed exactly once, and nothing else.
C10_EachItemOnce ==
    (wk_pc = "done" /\ wk_status = "ok")
      => \A i \in 1..Len(tree) :
           Occurrences(drive_index.arquivos, i) = (IF i \in Reachable(tree) THEN 1 ELSE 0)

\* C14: the paging cursor of a folder is drained before the walk moves to
\* another folder: between two list requests for one folder there is no list
\* request for another folder.
C14_CursorDrainedFirst ==
    \A i, j, k \in DOMAIN wk_requests :
        (i < j /\ j < k /\ wk_requests[i] = wk_requests[k])
            => wk_requests[j] = wk_requests[i]

\* the number of ways the walk comes to item i: the paths from the root to it
\* through folders that are not trashed
RECURSIVE Paths(_, _), PathsThrough(_, _)
Paths(t, i) == IF t[i].trashed THEN 0 ELSE PathsThrough(t, t[i].parents)

PathsThrough(t, ps) ==
    IF ps = {} THEN 0
    ELSE LET p == CHOOSE x \in ps : TRUE
         IN  (IF p = Root THEN 1 ELSE Paths(t, p)) + PathsThrough(t, ps \ {p})

\* the list requests one call for a folder can issue: one per child at most,
\* and one for an empty folder
PagesOf(t, pasta_id) ==
    IF Children(t, pasta_id) = <<>> THEN 1 ELSE Len(Children(t, pasta_id))

RECURSIVE RequestsBelow(_, _)
RequestsBelow(t, i) ==
    IF i = 0 THEN 0
    ELSE (IF t[i].folder THEN Paths(t, i) * PagesOf(t, i) ELSE 0) + RequestsBelow(t, i - 1)

\* the most list requests a walk of t can issue
RequestBound(t) == PagesOf(t, Root) + RequestsBelow(t, Len(t))

\* the walk has ended: with the snapshot written, or in the 500 of a list
\* request that raised
WalkEnded ==
    /\ wk_pc = "done"
    /\ wk_stack = <<>>
    /\ \/ wk_status = "error 500" /\ ~drive_index.exists
       \/ /\ wk_status = "ok"
          /\ drive_index.exists
          /\ drive_index.arquivos = arquivos_indexados

\* C15: over a finite acyclic hierarchy with finitely many pages per folder
\* the walk issues a bounded number of list requests and then ends: the
\* recursion returns and the snapshot is written (or, if a list request
\* raised, the request has ended in its error).
C15_WalkTerminates ==
    /\ [](Len(wk_requests) <= RequestBound(tree))
    /\ <>WalkEnded

\* a walk that went into a subfolder, read a folder in more than one page,
\* and wrote the snapshot
C15_Witness ==
    /\ wk_pc = "done" /\ wk_status = "ok" /\ drive_index.exists
    /\ \E i, j \in DOMAIN wk_requests : i < j /\ wk_requests[i] = wk_requests[j]
    /\ \E i \in DOMAIN wk_requests : wk_requests[i] # Root
    /\ Len(wk_requests) = RequestBound(tree)

====
